---- MODULE Spec2Model ----
(***************************************************************************)
(* The "AI Coach" chat component (full variant, src/unnamed/part_000) as a *)
(* state machine: React state and refs are the variables, every event      *)
(* handler, effect and promise continuation is one action, and the host    *)
(* (key-management facility, model provider, speech engine) supplies the   *)
(* nondeterministic inputs.  Text is a sequence of characters.  The        *)
(* simpler variant (src/components/games/AiCoach.tsx) is modelled next to  *)
(* it, on variables of its own, and run side by side with it in SpecPair.  *)
(***************************************************************************)
EXTENDS Integers, Sequences, FiniteSets, TLC

(* ---------------------------- bounds ----------------------------------- *)
\* longest fragment one stream delivery carries
MaxFragLen == 1
\* most fragments one stream delivers
MaxFrags == 3
\* most submissions the Session accepts in one run
MaxSends == 2
\* most clicks on the "Select API Key" button in one run
MaxSelects == 2
\* longest reply text the Reply Interpreter is given whole
MaxTextLen == 4
\* longest part (explanation, narration, formula) of a reply text put together
\* in the shape the system instruction asks for
MaxPartLen == 2
\* most calls of speak made on the Narrator alone
MaxSpeaks == 3

(* ----------------------------- text ------------------------------------ *)
\* characters a reply fragment is made of: the two characters of the
\* narration marker, each an ordinary character when it stands alone, and a
\* whitespace character
FragChars == {"V", ":", " "}

\* "VOICE_OVER:" (part_000:201), abstracted to two characters so that a
\* fragment boundary can fall inside the marker
VoiceMarker == <<"V", ":">>

SeqsUpTo(S, n) == UNION {[1..k -> S] : k \in 0..n}

Fragments == SeqsUpTo(FragChars, MaxFragLen)

\* the replies drawn where several turns follow one another, each delivered
\* as one fragment: one without and one with a narration block
CoarseReplies == {<<"x">>, VoiceMarker \o <<"x">>}

\* what the user can type: nothing, whitespace only, text with a trailing blank
InputValues == {<<>>, <<" ">>, <<"x", " ">>}

\* the characters \s matches and trim() removes
IsSpace(c) == c \in {" ", "\n"}

RECURSIVE TrimStart(_)
TrimStart(s) ==
    IF s # <<>> /\ IsSpace(Head(s)) THEN TrimStart(Tail(s)) ELSE s

RECURSIVE TrimEnd(_)
TrimEnd(s) ==
    IF s # <<>> /\ IsSpace(s[Len(s)]) THEN TrimEnd(SubSeq(s, 1, Len(s) - 1)) ELSE s

\* String.prototype.trim
Trim(s) == TrimEnd(TrimStart(s))

\* index of the first occurrence of the marker in s, 0 when there is none
MarkerIndex(s) ==
    LET hits == {i \in 1..(Len(s) - 1) : SubSeq(s, i, i + 1) = VoiceMarker}
    IN IF hits = {} THEN 0 ELSE CHOOSE i \in hits : \A j \in hits : i <= j

\* currentModelMessage.current.match(/VOICE_OVER:\s*(.*)/s): the first
\* marker, then greedy whitespace, then group 1 = the rest of the text
VoiceOverMatch(s) ==
    LET i == MarkerIndex(s)
    IN IF i = 0
       THEN [matched |-> FALSE, group |-> <<>>]
       ELSE [matched |-> TRUE, group |-> TrimStart(SubSeq(s, i + 2, Len(s)))]

(* -------------------------- Reply Interpreter -------------------------- *)
\* characters of a reply with a narration block: an ordinary character, blank,
\* newline and the two characters of the marker
NarrationChars == {"x", " ", "\n", "V", ":"}

\* characters of a reply with sections, one character for each token the
\* patterns of ModelMessageContent look for: "L" is `LaTeX Formula:`, "$" is
\* `$$`, "M" is `MathML Formula:`, "<" is `<math`, ">" is `</math>` and "D"
\* is `Plain Description:` (part_000:215-217)
SectionChars == {"x", " ", "L", "$", "M", "<", ">", "D"}

\* characters of running text
PlainChars == {"x", " "}

\* replies X, newline, VOICE_OVER:, blank, Y
MarkedTexts ==
    {X \o <<"\n">> \o VoiceMarker \o <<" ">> \o Y :
        X \in SeqsUpTo(NarrationChars, MaxPartLen),
        Y \in SeqsUpTo(NarrationChars, MaxPartLen)}

\* replies E, `LaTeX Formula:`, W, `$$` F `$$`, R
LatexTexts ==
    {E \o <<"L">> \o W \o <<"$">> \o F \o <<"$">> \o R :
        E \in SeqsUpTo(PlainChars, MaxPartLen), W \in SeqsUpTo({" "}, MaxPartLen),
        F \in SeqsUpTo(PlainChars, MaxPartLen), R \in SeqsUpTo(PlainChars, MaxPartLen)}

\* the reply texts the Reply Interpreter is run on
Texts ==
    SeqsUpTo(NarrationChars, MaxTextLen) \cup MarkedTexts
        \cup SeqsUpTo(SectionChars, MaxTextLen) \cup LatexTexts

\* the display text left untrimmed
DisplayContentUntrimmed(content) ==
    IF MarkerIndex(content) = 0
    THEN content
    ELSE SubSeq(content, 1, MarkerIndex(content) - 1)

\* content.replace(/VOICE_OVER:\s*(.*)/s, '').trim() (part_000:213): the
\* match runs from the first marker to the end of the text
DisplayContent(content) ==
    Trim(IF MarkerIndex(content) = 0
         THEN content
         ELSE SubSeq(content, 1, MarkerIndex(content) - 1))

\* s.match(/label\s*(open.*?close)/s): the leftmost label that is followed,
\* after any whitespace, by open and somewhere later by close; group 1 runs
\* from open to the nearest close.  index is 0 when there is no match.
LabelledBlock(s, label, open, close) ==
    LET OpenAt(i) == CHOOSE j \in (i + 1)..(Len(s) + 1) :
                        /\ \A m \in (i + 1)..(j - 1) : IsSpace(s[m])
                        /\ j <= Len(s) => ~IsSpace(s[j])
        Closes(i) == {k \in (OpenAt(i) + 1)..Len(s) : s[k] = close}
        hits == {i \in 1..Len(s) :
                    /\ s[i] = label
                    /\ OpenAt(i) <= Len(s)
                    /\ s[OpenAt(i)] = open
                    /\ Closes(i) # {}}
    IN IF hits = {}
       THEN [index |-> 0, group |-> <<>>]
       ELSE LET i == CHOOSE h \in hits : \A g \in hits : h <= g
                k == CHOOSE c \in Closes(i) : \A d \in Closes(i) : c <= d
            IN [index |-> i, group |-> SubSeq(s, OpenAt(i), k)]

\* s.match(/label\s*(.*)/s): the leftmost label; group 1 is the rest of the
\* text after the whitespace that follows it
LabelledRest(s, label) ==
    LET hits == {i \in 1..Len(s) : s[i] = label}
    IN IF hits = {}
       THEN [index |-> 0, group |-> <<>>]
       ELSE LET i == CHOOSE h \in hits : \A g \in hits : h <= g
            IN [index |-> i, group |-> TrimStart(SubSeq(s, i + 1, Len(s)))]

\* the latest section start taken for the first
FirstFormulaIndexLatest(indexes) ==
    IF \A i \in indexes : i = 0
    THEN 0
    ELSE CHOOSE i \in indexes : \A j \in indexes : j <= i

\* Math.min(...) over the sections found (part_000:219-223); 0 stands for
\* Infinity, here and in the index of a match that failed
FirstFormulaIndex(indexes) ==
    IF \A i \in indexes : i = 0
    THEN 0
    ELSE CHOOSE i \in indexes \ {0} : \A j \in indexes \ {0} : i <= j

\* what ModelMessageContent renders for a model Turn (part_000:211-252): the
\* explanation paragraph and the three optional sections, <<>> when the
\* section is not rendered and <<text>> when it is
ModelMessageContent(content) ==
    LET displayContent == DisplayContent(content)
        latexMatch == LabelledBlock(displayContent, "L", "$", "$")
        mathmlMatch == LabelledBlock(displayContent, "M", "<", ">")
        descMatch == LabelledRest(displayContent, "D")
        firstFormulaIndex ==
            FirstFormulaIndex({latexMatch.index, mathmlMatch.index, descMatch.index})
    IN [rendered |-> TRUE,
        displayContent |-> displayContent,
        explanationText |->
            IF firstFormulaIndex = 0
            THEN displayContent
            ELSE Trim(SubSeq(displayContent, 1, firstFormulaIndex - 1)),
        latex |-> IF latexMatch.index = 0 THEN <<>> ELSE <<latexMatch.group>>,
        mathml |-> IF mathmlMatch.index = 0 THEN <<>> ELSE <<mathmlMatch.group>>,
        desc |-> IF descMatch.index = 0 THEN <<>> ELSE <<descMatch.group>>]

\* nothing rendered yet
NoView == [rendered |-> FALSE, displayContent |-> <<>>, explanationText |-> <<>>,
           latex |-> <<>>, mathml |-> <<>>, desc |-> <<>>]

(* ------------------------- fixed messages ------------------------------ *)
\* the Turn the simpler variant seeds its transcript with (AiCoach.tsx:48)
SimpleGreeting == <<"Hi! I'm Pro-Bot. Ask me anything about probability!">>

ConfirmationMessage == <<"AI Coach initialized successfully.">>
UnavailableMessage == <<"Sorry, the AI Coach couldn't be started.">>
ErrorMessage == <<"Oops! Something went wrong. Please try again.">>
InvalidKeyError == "The selected API key is not valid or lacks permissions."
UnexpectedInitError == "An unexpected error occurred during initialization."
KeyServiceError == "Could not connect to the API key service. Please reload."
DialogError == "The API key selection dialog could not be opened."
VoiceOnCommand == <<"Mad Scientist Voice: ON", "\n\n">>
VoiceOffCommand == <<"Mad Scientist Voice: OFF", "\n\n">>

\* texts a failed Session construction can carry in error.message
InitErrorTexts == {"API key not valid", "permission", "not found", "network"}
KnownKeyPhrases == {"API key not valid", "permission", "not found"}

Turn(r, c) == [role |-> r, content |-> c]

VARIABLES
    hostAistudio,           \* window.aistudio: "none", "nofn" (no hasSelectedApiKey), "full"
    hostSpeech,             \* 'speechSynthesis' in window
    keyStatus, isInitializing, keyError,
    chat,                   \* 0 = null, n = the Session built by the n-th construction
    messages, inputValue, isStreaming, isMadScientistVoiceOn,
    currentModelMessage,    \* the ref's .current
    checkPc,                \* checkKeyManagementService: "delay", "query", "done"
    checkOutcome,           \* what the startup check met: "none" yet, "nofacility", "yes", "no", "throw"
    effDeps,                \* dependency values the initialization effect last ran with
    dialogs,                \* openSelectKey() promises not yet settled
    selectClicks,           \* clicks on "Select API Key" so far
    selectOks,              \* dialogs resolved successfully so far
    initRuns,               \* calls of initializeChat so far
    lastInit,               \* result of the latest initializeChat: "none", "ok" or its error text
    calls,                  \* one record per handleSendMessage invocation that passed the guard:
                            \* pc, the captured voice flag, the fragments its stream has
                            \* delivered while it is open, whether it called speak,
                            \* whether its catch block overwrote an accumulator
                            \* holding a narration it would have spoken
    sentLog,                \* the texts handed to chat.sendMessageStream, in order
    dropped,                \* submissions the guard dropped, modulo 2
    speechQueue,            \* utterances the speech engine holds, playing one first
    mutedByToggle,          \* voice was toggled off during an utterance and not turned on since
    speakLog,               \* the texts speak was called with, in order
    view,                   \* what ModelMessageContent rendered for the last Turn
    simpleChat,             \* the simpler variant (AiCoach.tsx): chat, 0 = null
    simpleMessages,         \* its messages
    simpleInputValue,       \* its inputValue
    isLoading,              \* its isLoading
    simpleCalls,            \* the pc of each of its handleSendMessage invocations past the guard
    updaterRuns             \* times React calls a state updater function: 1, or 2 in a
                            \* development build under StrictMode

vars == <<hostAistudio, hostSpeech, keyStatus, isInitializing, keyError, chat,
          messages, inputValue, isStreaming, isMadScientistVoiceOn,
          currentModelMessage, checkPc, checkOutcome, effDeps, dialogs,
          selectClicks, selectOks, initRuns, lastInit, calls, sentLog, dropped,
          speechQueue, mutedByToggle, speakLog, view,
          simpleChat, simpleMessages, simpleInputValue, isLoading, simpleCalls,
          updaterRuns>>

hostVars == <<hostAistudio, hostSpeech>>
keyVars == <<keyStatus, isInitializing, keyError, chat, checkPc, checkOutcome,
             effDeps, dialogs, selectClicks, selectOks, initRuns, lastInit>>
chatVars == <<messages, inputValue, isStreaming, currentModelMessage, calls,
              sentLog, dropped>>
voiceVars == <<isMadScientistVoiceOn, speechQueue, mutedByToggle, speakLog>>
viewVars == <<view>>
simpleVars == <<simpleChat, simpleMessages, simpleInputValue, isLoading, simpleCalls,
                updaterRuns>>

\* the simpler variant before its mount effect: its useState initial values
\* (AiCoach.tsx:15-18)
SimpleInit ==
    /\ simpleChat = 0
    /\ simpleMessages = <<>>
    /\ simpleInputValue = <<>>
    /\ isLoading = TRUE
    /\ simpleCalls = <<>>
    /\ updaterRuns = 1

\* useState/useRef initial values (part_000:17-27) with both mount effects run:
\* the key check is waiting on its timer, the initialization effect saw 'checking'
Init ==
    /\ hostAistudio \in {"none", "nofn", "full"}
    /\ hostSpeech \in BOOLEAN
    /\ keyStatus = "checking"
    /\ isInitializing = FALSE
    /\ keyError = "null"
    /\ chat = 0
    /\ messages = <<>>
    /\ inputValue = <<>>
    /\ isStreaming = FALSE
    /\ isMadScientistVoiceOn = FALSE
    /\ currentModelMessage = <<>>
    /\ checkPc = "delay"
    /\ checkOutcome = "none"
    /\ effDeps = <<"checking", 0, FALSE>>
    /\ dialogs = 0
    /\ selectClicks = 0
    /\ selectOks = 0
    /\ initRuns = 0
    /\ lastInit = "none"
    /\ calls = <<>>
    /\ sentLog = <<>>
    /\ dropped = 0
    /\ speechQueue = <<>>
    /\ mutedByToggle = FALSE
    /\ speakLog = <<>>
    /\ view = NoView
    /\ SimpleInit

\* the dependency array with the transcript added to it
DepsWithMessages == <<keyStatus, chat, isInitializing, messages>>

\* the dependency array of the initialization effect (part_000:147)
Deps == <<keyStatus, chat, isInitializing>>

\* React runs a committed render's effects before it handles the next event
Quiescent == effDeps = Deps

(* ------------------------ Key Availability Gate ------------------------ *)
\* checkKeyManagementService after its 500 ms delay, up to the awaited query
CheckKeyTimer ==
    /\ checkPc = "delay"
    /\ Quiescent
    /\ IF hostAistudio = "full"
       THEN /\ checkPc' = "query"
            /\ UNCHANGED <<keyStatus, checkOutcome>>
       ELSE /\ checkPc' = "done"
            /\ keyStatus' = "ready"
            /\ checkOutcome' = "nofacility"
    /\ UNCHANGED <<isInitializing, keyError, chat, effDeps, dialogs, selectClicks,
                   selectOks, initRuns, lastInit>>
    /\ UNCHANGED <<hostVars, chatVars, voiceVars>>

\* the query's exception taken for a selected key
KeyStatusAfterQueryFailOpen(answer) ==
    CASE answer = "yes" -> "ready"
      [] answer = "no" -> "needed"
      [] answer = "throw" -> "ready"

\* the Key State each outcome of the query sets (part_000:124-134)
KeyStatusAfterQuery(answer) ==
    CASE answer = "yes" -> "ready"
      [] answer = "no" -> "needed"
      [] answer = "throw" -> "error"

\* the continuation after `await window.aistudio.hasSelectedApiKey()`
CheckKeyResult(answer) ==
    /\ checkPc = "query"
    /\ Quiescent
    /\ checkPc' = "done"
    /\ checkOutcome' = answer
    /\ keyStatus' = KeyStatusAfterQuery(answer)
    /\ keyError' = IF answer = "throw" THEN KeyServiceError ELSE keyError
    /\ UNCHANGED <<isInitializing, chat, effDeps, dialogs, selectClicks, selectOks,
                   initRuns, lastInit>>
    /\ UNCHANGED <<hostVars, chatVars, voiceVars>>

(* -------------------------- Session Initializer ------------------------ *)
\* the classification with the 'not found' phrase left out
ClassifyInitErrorTwoPhrases(text) ==
    IF text \in {"API key not valid", "permission"}
    THEN InvalidKeyError
    ELSE UnexpectedInitError

\* error.message.includes('API key not valid') || ...('permission') || ...('not found')
ClassifyInitError(text) ==
    IF text \in KnownKeyPhrases THEN InvalidKeyError ELSE UnexpectedInitError

\* initializeChat (part_000:54-118).  It awaits nothing, so it runs to its
\* finally block inside the effect that calls it and its state updates are
\* committed together: isInitializing is set true and then false again.
\* outcome is "ok" when the Session is constructed, else the text of the error.
InitializeChat(outcome) ==
    /\ initRuns' = initRuns + 1
    /\ lastInit' = outcome
    /\ isInitializing' = FALSE
    /\ IF outcome = "ok"
       THEN /\ chat' = initRuns + 1
            /\ messages' = <<Turn("model", ConfirmationMessage)>>
            /\ keyError' = "null"
            /\ UNCHANGED keyStatus
       ELSE /\ chat' = 0
            /\ IF hostAistudio # "none"
               THEN /\ keyStatus' = "needed"
                    /\ keyError' = ClassifyInitError(outcome)
                    /\ UNCHANGED messages
               ELSE /\ messages' = <<Turn("model", UnavailableMessage)>>
                    /\ keyError' = "null"
                    /\ UNCHANGED keyStatus

\* the effect's condition with the test of chat inverted
ShouldInitializeInverted == keyStatus = "ready" /\ chat # 0 /\ ~isInitializing

\* the effect's condition (part_000:144)
ShouldInitialize == keyStatus = "ready" /\ chat = 0 /\ ~isInitializing

\* the initialization effect (part_000:143-147): it runs after every render
\* in which one of its dependencies changed
InitEffect ==
    /\ ~Quiescent
    /\ effDeps' = Deps
    /\ IF ShouldInitialize
       THEN \E outcome \in {"ok"} \cup InitErrorTexts : InitializeChat(outcome)
       ELSE UNCHANGED <<keyStatus, isInitializing, keyError, chat, messages,
                        initRuns, lastInit>>
    /\ UNCHANGED <<checkPc, checkOutcome, dialogs, selectClicks, selectOks>>
    /\ UNCHANGED <<inputValue, isStreaming, currentModelMessage, calls, sentLog, dropped>>
    /\ UNCHANGED <<hostVars, voiceVars>>

\* the key prompt rendered in state 'error' as well
SelectKeyShownOnError == keyStatus \in {"needed", "error"}

\* "Select API Key" is rendered by renderActionRequired, in state 'needed' only
SelectKeyShown == keyStatus = "needed"

\* handleSelectKey up to `await window.aistudio.openSelectKey()` (part_000:149-151)
HandleSelectKey ==
    /\ Quiescent
    /\ SelectKeyShown
    /\ selectClicks < MaxSelects
    /\ selectClicks' = selectClicks + 1
    /\ dialogs' = dialogs + 1
    /\ UNCHANGED <<keyStatus, isInitializing, keyError, chat, checkPc, checkOutcome,
                   effDeps, selectOks, initRuns, lastInit>>
    /\ UNCHANGED <<hostVars, chatVars, voiceVars>>

\* handleSelectKey after the dialog settles (part_000:152-157)
SelectKeySettled(ok) ==
    /\ Quiescent
    /\ dialogs > 0
    /\ dialogs' = dialogs - 1
    /\ IF ok
       THEN /\ keyStatus' = "ready"
            /\ selectOks' = selectOks + 1
            /\ UNCHANGED keyError
       ELSE /\ keyError' = DialogError
            /\ keyStatus' = "needed"
            /\ UNCHANGED selectOks
    /\ UNCHANGED <<isInitializing, chat, checkPc, checkOutcome, effDeps,
                   selectClicks, initRuns, lastInit>>
    /\ UNCHANGED <<hostVars, chatVars, voiceVars>>

(* ---------------------------- Speech Narrator -------------------------- *)
\* window.speechSynthesis.cancel(): drops the playing and the pending utterances
Cancel(queue) == <<>>

\* speak without the cancel before the new utterance
SpeakQueues(text, queue) ==
    IF hostSpeech /\ text # <<>> THEN Append(queue, text) ELSE queue

\* speak (part_000:42-52): the engine's queue after speak(text)
Speak(text, queue) ==
    IF hostSpeech /\ text # <<>> THEN Append(Cancel(queue), text) ELSE queue

\* toggleVoiceMode (part_000:35-40)
ToggleVoiceMode ==
    /\ Quiescent
    /\ isMadScientistVoiceOn' = ~isMadScientistVoiceOn
    /\ speechQueue' = IF isMadScientistVoiceOn /\ hostSpeech
                      THEN Cancel(speechQueue)
                      ELSE speechQueue
    /\ mutedByToggle' = (isMadScientistVoiceOn /\ speechQueue # <<>>)
    /\ UNCHANGED speakLog
    /\ UNCHANGED <<hostVars, keyVars, chatVars>>

\* the engine finishes playing the utterance at the head of its queue
UtteranceEnd ==
    /\ Quiescent
    /\ speechQueue # <<>>
    /\ speechQueue' = Tail(speechQueue)
    /\ UNCHANGED <<isMadScientistVoiceOn, mutedByToggle, speakLog>>
    /\ UNCHANGED <<hostVars, keyVars, chatVars>>

(* --------------------------- Message Dispatcher ------------------------ *)
\* the chat form is rendered by renderChatInterface, in state 'ready' only
FormShown == keyStatus = "ready"

\* the text input's disabled attribute (part_000:298)
InputDisabled == chat = 0 \/ isStreaming \/ isInitializing

\* onChange of the text input (part_000:295)
TypeInput(text) ==
    /\ Quiescent
    /\ FormShown
    /\ ~InputDisabled
    /\ text # inputValue
    /\ inputValue' = text
    /\ UNCHANGED <<messages, isStreaming, currentModelMessage, calls, sentLog, dropped>>
    /\ UNCHANGED <<hostVars, keyVars, voiceVars>>

\* the guard with the input tested untrimmed
SendGuardFailsUntrimmed == inputValue = <<>> \/ chat = 0 \/ isStreaming

\* the early return of handleSendMessage (part_000:162)
SendGuardFails == Trim(inputValue) = <<>> \/ chat = 0 \/ isStreaming

\* the updater returning the new Turn alone instead of the copied transcript
ReplaceLastDropsRest(ms, turn) ==
    IF ms = <<>> THEN ms ELSE <<turn>>

\* newMessages[newMessages.length - 1] = turn
ReplaceLast(ms, turn) ==
    IF ms = <<>> THEN ms ELSE [ms EXCEPT ![Len(ms)] = turn]

\* the call record of an invocation that has just called sendMessageStream
NewCall == [pc |-> "opening", voice |-> isMadScientistVoiceOn,
            delivered |-> <<>>, narrated |-> FALSE, lostNarration |-> FALSE]

\* the accepted submission with setIsStreaming(true) left out
AcceptSubmissionNoFlag ==
    /\ Len(calls) < MaxSends
    /\ messages' = messages \o <<Turn("user", inputValue), Turn("model", <<>>)>>
    /\ sentLog' = Append(sentLog,
            (IF isMadScientistVoiceOn THEN VoiceOnCommand ELSE VoiceOffCommand)
                \o inputValue)
    /\ inputValue' = <<>>
    /\ UNCHANGED isStreaming
    /\ currentModelMessage' = <<>>
    /\ calls' = Append(calls, NewCall)

\* the accepted submission recording the composed message, directive and all,
\* in the user Turn
AcceptSubmissionShowsDirective ==
    /\ Len(calls) < MaxSends
    /\ messages' = messages \o
          <<Turn("user", (IF isMadScientistVoiceOn THEN VoiceOnCommand ELSE VoiceOffCommand)
                             \o inputValue),
            Turn("model", <<>>)>>
    /\ sentLog' = Append(sentLog,
            (IF isMadScientistVoiceOn THEN VoiceOnCommand ELSE VoiceOffCommand)
                \o inputValue)
    /\ inputValue' = <<>>
    /\ isStreaming' = TRUE
    /\ currentModelMessage' = <<>>
    /\ calls' = Append(calls, NewCall)

\* the accepted submission appending the user Turn alone, with no empty model
\* Turn after it
AcceptSubmissionNoPlaceholder ==
    /\ Len(calls) < MaxSends
    /\ messages' = messages \o <<Turn("user", inputValue)>>
    /\ sentLog' = Append(sentLog,
            (IF isMadScientistVoiceOn THEN VoiceOnCommand ELSE VoiceOffCommand)
                \o inputValue)
    /\ inputValue' = <<>>
    /\ isStreaming' = TRUE
    /\ currentModelMessage' = <<>>
    /\ calls' = Append(calls, NewCall)

\* handleSendMessage past its guard, up to `await chat.sendMessageStream`
\* (part_000:164-176); isMadScientistVoiceOn is captured by the closure
AcceptSubmission ==
    /\ Len(calls) < MaxSends
    /\ messages' = messages \o <<Turn("user", inputValue), Turn("model", <<>>)>>
    /\ sentLog' = Append(sentLog,
            (IF isMadScientistVoiceOn THEN VoiceOnCommand ELSE VoiceOffCommand)
                \o inputValue)
    /\ inputValue' = <<>>
    /\ isStreaming' = TRUE
    /\ currentModelMessage' = <<>>
    /\ calls' = Append(calls, NewCall)

\* handleSendMessage on the submit event (part_000:160-176)
HandleSendMessage ==
    /\ Quiescent
    /\ FormShown
    /\ IF SendGuardFails
       THEN /\ dropped' = 1 - dropped
            /\ UNCHANGED <<messages, inputValue, isStreaming, currentModelMessage,
                           calls, sentLog>>
       ELSE /\ AcceptSubmission
            /\ UNCHANGED dropped
    /\ UNCHANGED <<hostVars, keyVars, voiceVars>>

\* `await chat.sendMessageStream(...)` resolves with a stream (part_000:176)
StreamOpened(c) ==
    /\ Quiescent
    /\ calls[c].pc = "opening"
    /\ calls' = [calls EXCEPT ![c].pc = "streaming"]
    /\ UNCHANGED <<messages, inputValue, isStreaming, currentModelMessage, sentLog, dropped>>
    /\ UNCHANGED <<hostVars, keyVars, voiceVars>>

\* the accumulator replaced by the fragment instead of extended by it
AccumulateDelta(acc, chunkText) == chunkText

\* currentModelMessage.current += chunkText (part_000:179)
Accumulate(acc, chunkText) == acc \o chunkText

\* one iteration of the for-await loop (part_000:177-188)
StreamFragment(c, chunkText) ==
    /\ Quiescent
    /\ calls[c].pc = "streaming"
    /\ Len(calls[c].delivered) < MaxFrags
    /\ currentModelMessage' = Accumulate(currentModelMessage, chunkText)
    /\ messages' = IF messages # <<>> /\ messages[Len(messages)].role = "model"
                   THEN ReplaceLast(messages,
                            [messages[Len(messages)] EXCEPT !.content = currentModelMessage'])
                   ELSE messages
    /\ calls' = [calls EXCEPT ![c].delivered = Append(@, chunkText)]
    /\ UNCHANGED <<inputValue, isStreaming, sentLog, dropped>>
    /\ UNCHANGED <<hostVars, keyVars, voiceVars>>

\* the test of the finally block (part_000:200-202) on the accumulated text
ShouldSpeak(voice, text) ==
    voice /\ VoiceOverMatch(text).matched /\ VoiceOverMatch(text).group # <<>>

\* the finally block reading the flag as it is when the stream ends
FinallyLiveFlag(c, pc) ==
    /\ speechQueue' = IF ShouldSpeak(isMadScientistVoiceOn, currentModelMessage')
                      THEN Speak(Trim(VoiceOverMatch(currentModelMessage').group), speechQueue)
                      ELSE speechQueue
    /\ speakLog' = IF ShouldSpeak(isMadScientistVoiceOn, currentModelMessage')
                   THEN Append(speakLog, Trim(VoiceOverMatch(currentModelMessage').group))
                   ELSE speakLog
    /\ calls' = [calls EXCEPT ![c].pc = pc,
                              ![c].delivered = <<>>,
                              ![c].narrated = ShouldSpeak(isMadScientistVoiceOn,
                                                          currentModelMessage'),
                              ![c].lostNarration =
                                    /\ pc = "failed"
                                    /\ ShouldSpeak(isMadScientistVoiceOn, currentModelMessage)]
    /\ isStreaming' = FALSE

\* the finally block without setIsStreaming(false)
FinallyLeavesStreaming(c, pc) ==
    /\ speechQueue' = IF ShouldSpeak(calls[c].voice, currentModelMessage')
                      THEN Speak(Trim(VoiceOverMatch(currentModelMessage').group), speechQueue)
                      ELSE speechQueue
    /\ speakLog' = IF ShouldSpeak(calls[c].voice, currentModelMessage')
                   THEN Append(speakLog, Trim(VoiceOverMatch(currentModelMessage').group))
                   ELSE speakLog
    /\ calls' = [calls EXCEPT ![c].pc = pc,
                              ![c].delivered = <<>>,
                              ![c].narrated = ShouldSpeak(calls[c].voice, currentModelMessage'),
                              ![c].lostNarration =
                                    /\ pc = "failed"
                                    /\ ShouldSpeak(calls[c].voice, currentModelMessage)]
    /\ UNCHANGED isStreaming

\* the finally block (part_000:198-208) of the invocation c, which ends as pc
Finally(c, pc) ==
    /\ speechQueue' = IF ShouldSpeak(calls[c].voice, currentModelMessage')
                      THEN Speak(Trim(VoiceOverMatch(currentModelMessage').group), speechQueue)
                      ELSE speechQueue
    /\ speakLog' = IF ShouldSpeak(calls[c].voice, currentModelMessage')
                   THEN Append(speakLog, Trim(VoiceOverMatch(currentModelMessage').group))
                   ELSE speakLog
    /\ calls' = [calls EXCEPT ![c].pc = pc,
                              ![c].delivered = <<>>,
                              ![c].narrated = ShouldSpeak(calls[c].voice, currentModelMessage'),
                              ![c].lostNarration =
                                    /\ pc = "failed"
                                    /\ ShouldSpeak(calls[c].voice, currentModelMessage)]
    /\ isStreaming' = FALSE

\* the stream is exhausted: the loop ends and the finally block runs
StreamEnd(c) ==
    /\ Quiescent
    /\ calls[c].pc = "streaming"
    /\ UNCHANGED <<currentModelMessage, messages>>
    /\ Finally(c, "done")
    /\ UNCHANGED <<inputValue, sentLog, dropped>>
    /\ UNCHANGED <<isMadScientistVoiceOn, mutedByToggle>>
    /\ UNCHANGED <<hostVars, keyVars>>

\* the error message appended to what the stream had delivered
CatchTextKeepPartial(acc) == acc \o ErrorMessage

\* the error message put in front of what the stream had delivered
CatchTextKeepReply(acc) == ErrorMessage \o acc

\* the text the catch block puts in the accumulator and in the trailing Turn
\* (part_000:191-195)
CatchText(acc) == ErrorMessage

\* opening the stream or reading it throws: the catch block (part_000:189-197),
\* then the finally block
StreamFail(c) ==
    /\ Quiescent
    /\ calls[c].pc \in {"opening", "streaming"}
    /\ currentModelMessage' = CatchText(currentModelMessage)
    /\ messages' = ReplaceLast(messages, Turn("model", CatchText(currentModelMessage)))
    /\ Finally(c, "failed")
    /\ UNCHANGED <<inputValue, sentLog, dropped>>
    /\ UNCHANGED <<isMadScientistVoiceOn, mutedByToggle>>
    /\ UNCHANGED <<hostVars, keyVars>>

(* ----------------------------- specification --------------------------- *)
KeyGate ==
    \/ CheckKeyTimer
    \/ \E answer \in {"yes", "no", "throw"} : CheckKeyResult(answer)
    \/ InitEffect
    \/ HandleSelectKey
    \/ \E ok \in BOOLEAN : SelectKeySettled(ok)

Next ==
    \/ KeyGate /\ UNCHANGED <<viewVars, simpleVars>>
    \/ ToggleVoiceMode /\ UNCHANGED <<viewVars, simpleVars>>
    \/ UtteranceEnd /\ UNCHANGED <<viewVars, simpleVars>>
    \/ \E text \in InputValues : TypeInput(text) /\ UNCHANGED <<viewVars, simpleVars>>
    \/ HandleSendMessage /\ UNCHANGED <<viewVars, simpleVars>>
    \/ \E c \in DOMAIN calls : StreamOpened(c) /\ UNCHANGED <<viewVars, simpleVars>>
    \/ \E c \in DOMAIN calls : \E chunkText \in CoarseReplies :
            calls[c].delivered = <<>> /\ StreamFragment(c, chunkText) /\ UNCHANGED <<viewVars, simpleVars>>
    \/ \E c \in DOMAIN calls : StreamEnd(c) /\ UNCHANGED <<viewVars, simpleVars>>
    \/ \E c \in DOMAIN calls : StreamFail(c) /\ UNCHANGED <<viewVars, simpleVars>>

\* the whole component, from mount
Spec == Init /\ [][Next]_vars

\* the component once a Session is live in a host without a key-management
\* facility: the key check answered 'ready' and initializeChat succeeded
\* (a state Spec reaches)
InitChat ==
    /\ hostAistudio = "none"
    /\ hostSpeech \in BOOLEAN
    /\ keyStatus = "ready"
    /\ isInitializing = FALSE
    /\ keyError = "null"
    /\ chat = 1
    /\ messages = <<Turn("model", ConfirmationMessage)>>
    /\ inputValue = <<>>
    /\ isStreaming = FALSE
    /\ isMadScientistVoiceOn = FALSE
    /\ currentModelMessage = <<>>
    /\ checkPc = "done"
    /\ checkOutcome = "nofacility"
    /\ effDeps = <<"ready", 1, FALSE>>
    /\ dialogs = 0
    /\ selectClicks = 0
    /\ selectOks = 0
    /\ initRuns = 1
    /\ lastInit = "ok"
    /\ calls = <<>>
    /\ sentLog = <<>>
    /\ dropped = 0
    /\ speechQueue = <<>>
    /\ mutedByToggle = FALSE
    /\ speakLog = <<>>
    /\ view = NoView
    /\ SimpleInit

NextTurn ==
    \/ ToggleVoiceMode /\ UNCHANGED <<viewVars, simpleVars>>
    \/ UtteranceEnd /\ UNCHANGED <<viewVars, simpleVars>>
    \/ calls = <<>> /\ (\E text \in InputValues : TypeInput(text)) /\ UNCHANGED <<viewVars, simpleVars>>
    \/ calls = <<>> /\ HandleSendMessage /\ UNCHANGED <<viewVars, simpleVars>>
    \/ \E c \in DOMAIN calls : StreamOpened(c) /\ UNCHANGED <<viewVars, simpleVars>>
    \/ \E c \in DOMAIN calls : \E chunkText \in Fragments :
            StreamFragment(c, chunkText) /\ UNCHANGED <<viewVars, simpleVars>>
    \/ \E c \in DOMAIN calls : StreamEnd(c) /\ UNCHANGED <<viewVars, simpleVars>>
    \/ \E c \in DOMAIN calls : StreamFail(c) /\ UNCHANGED <<viewVars, simpleVars>>

\* the first turn over a live Session, its stream delivering any fragments
SpecTurn == InitChat /\ [][NextTurn]_vars

\* the steps of Next that a live Session takes: all but the key gate's
NextChat ==
    \/ ToggleVoiceMode /\ UNCHANGED <<viewVars, simpleVars>>
    \/ UtteranceEnd /\ UNCHANGED <<viewVars, simpleVars>>
    \/ \E text \in InputValues : TypeInput(text) /\ UNCHANGED <<viewVars, simpleVars>>
    \/ HandleSendMessage /\ UNCHANGED <<viewVars, simpleVars>>
    \/ \E c \in DOMAIN calls : StreamOpened(c) /\ UNCHANGED <<viewVars, simpleVars>>
    \/ \E c \in DOMAIN calls : \E chunkText \in CoarseReplies :
            calls[c].delivered = <<>> /\ StreamFragment(c, chunkText) /\ UNCHANGED <<viewVars, simpleVars>>
    \/ \E c \in DOMAIN calls : StreamEnd(c) /\ UNCHANGED <<viewVars, simpleVars>>
    \/ \E c \in DOMAIN calls : StreamFail(c) /\ UNCHANGED <<viewVars, simpleVars>>

\* an awaited promise of an invocation settles and its continuation runs: the
\* stream opens, ends or fails
StreamProgress ==
    \E c \in DOMAIN calls :
        (StreamOpened(c) \/ StreamEnd(c) \/ StreamFail(c)) /\ UNCHANGED <<viewVars, simpleVars>>

\* the turns over a live Session where the provider settles every promise:
\* a stream is finite, it ends or it fails
FairSpecChat ==
    /\ InitChat
    /\ [][NextChat]_vars
    /\ WF_vars(StreamProgress)

\* the texts speak is called with on the Narrator alone: empty or not
SpokenTexts == {<<>>, <<"x">>, <<"y">>}

\* a call speak(text) (part_000:42-52)
SpeakCall(text) ==
    /\ Len(speakLog) < MaxSpeaks
    /\ speechQueue' = Speak(text, speechQueue)
    /\ speakLog' = Append(speakLog, text)
    /\ UNCHANGED <<isMadScientistVoiceOn, mutedByToggle>>
    /\ UNCHANGED <<hostVars, keyVars, chatVars, viewVars, simpleVars>>

NextNarrator ==
    \/ \E text \in SpokenTexts : SpeakCall(text)
    \/ ToggleVoiceMode /\ UNCHANGED <<viewVars, simpleVars>>
    \/ UtteranceEnd /\ UNCHANGED <<viewVars, simpleVars>>

\* the Narrator alone: speak called with any text, the voice toggle and the
\* engine playing, over a live Session
SpecNarrator == InitChat /\ [][NextNarrator]_vars

(* ------------------- the simpler variant (AiCoach.tsx) ----------------- *)
\* the text input's disabled attribute (AiCoach.tsx:125)
SimpleInputDisabled == simpleChat = 0 \/ isLoading

\* onChange of the text input (AiCoach.tsx:122)
SimpleTypeInput(text) ==
    /\ ~SimpleInputDisabled
    /\ simpleInputValue' = text
    /\ UNCHANGED <<simpleChat, simpleMessages, isLoading, simpleCalls, updaterRuns>>

\* the early return of handleSendMessage (AiCoach.tsx:59)
SimpleSendGuardFails ==
    Trim(simpleInputValue) = <<>> \/ simpleChat = 0 \/ isLoading

\* handleSendMessage on the submit event, up to `await chat.sendMessageStream`
\* (AiCoach.tsx:57-68)
SimpleHandleSendMessage ==
    IF SimpleSendGuardFails
    THEN UNCHANGED simpleVars
    ELSE /\ Len(simpleCalls) < MaxSends
         /\ simpleMessages' = simpleMessages \o
                <<Turn("user", simpleInputValue), Turn("model", <<>>)>>
         /\ simpleInputValue' = <<>>
         /\ isLoading' = TRUE
         /\ simpleCalls' = Append(simpleCalls, "opening")
         /\ UNCHANGED <<simpleChat, updaterRuns>>

\* `await chat.sendMessageStream(...)` resolves with a stream (AiCoach.tsx:69)
SimpleStreamOpened(c) ==
    /\ c \in DOMAIN simpleCalls
    /\ simpleCalls[c] = "opening"
    /\ simpleCalls' = [simpleCalls EXCEPT ![c] = "streaming"]
    /\ UNCHANGED <<simpleChat, simpleMessages, simpleInputValue, isLoading, updaterRuns>>

\* one call of the updater of the for-await loop (AiCoach.tsx:73-78): the
\* array is copied, its last Turn is not, and `lastMessage.content +=
\* chunkText` writes to the Turn object the previous state holds too
AppendChunk(ms, chunkText) ==
    [ms EXCEPT ![Len(ms)].content = @ \o chunkText]

\* the transcript React commits for one setMessages(updater) of the loop:
\* every call of the updater is handed the same previous state, whose last
\* Turn the call before it has already extended
SimpleFragmentUpdate(ms, chunkText) ==
    IF updaterRuns = 2
    THEN AppendChunk(AppendChunk(ms, chunkText), chunkText)
    ELSE AppendChunk(ms, chunkText)

\* one iteration of the for-await loop (AiCoach.tsx:71-79)
SimpleStreamFragment(c, chunkText) ==
    /\ c \in DOMAIN simpleCalls
    /\ simpleCalls[c] = "streaming"
    /\ simpleMessages # <<>>
    /\ simpleMessages' = SimpleFragmentUpdate(simpleMessages, chunkText)
    /\ UNCHANGED <<simpleChat, simpleInputValue, isLoading, simpleCalls, updaterRuns>>

\* the stream is exhausted: the loop ends and the finally block runs
\* (AiCoach.tsx:88-90)
SimpleStreamEnd(c) ==
    /\ c \in DOMAIN simpleCalls
    /\ simpleCalls[c] = "streaming"
    /\ simpleCalls' = [simpleCalls EXCEPT ![c] = "done"]
    /\ isLoading' = FALSE
    /\ UNCHANGED <<simpleChat, simpleMessages, simpleInputValue, updaterRuns>>

\* opening the stream or reading it throws: the catch block, whose updater
\* assigns the error message to the last Turn's content, then the finally
\* block (AiCoach.tsx:81-90)
SimpleStreamFail(c) ==
    /\ c \in DOMAIN simpleCalls
    /\ simpleCalls[c] \in {"opening", "streaming"}
    /\ simpleMessages # <<>>
    /\ simpleMessages' = [simpleMessages EXCEPT ![Len(simpleMessages)].content = ErrorMessage]
    /\ simpleCalls' = [simpleCalls EXCEPT ![c] = "failed"]
    /\ isLoading' = FALSE
    /\ UNCHANGED <<simpleChat, simpleInputValue, updaterRuns>>

\* both variants over live Sessions, the full one with voice mode off: the
\* full variant as in InitChat, the simpler one after its mount effect built
\* the Session (AiCoach.tsx:38-53), in a build that calls updaters once or twice
InitPair ==
    /\ hostAistudio = "none"
    /\ hostSpeech \in BOOLEAN
    /\ keyStatus = "ready"
    /\ isInitializing = FALSE
    /\ keyError = "null"
    /\ chat = 1
    /\ messages = <<Turn("model", ConfirmationMessage)>>
    /\ inputValue = <<>>
    /\ isStreaming = FALSE
    /\ isMadScientistVoiceOn = FALSE
    /\ currentModelMessage = <<>>
    /\ checkPc = "done"
    /\ checkOutcome = "nofacility"
    /\ effDeps = <<"ready", 1, FALSE>>
    /\ dialogs = 0
    /\ selectClicks = 0
    /\ selectOks = 0
    /\ initRuns = 1
    /\ lastInit = "ok"
    /\ calls = <<>>
    /\ sentLog = <<>>
    /\ dropped = 0
    /\ speechQueue = <<>>
    /\ mutedByToggle = FALSE
    /\ speakLog = <<>>
    /\ view = NoView
    /\ simpleChat = 1
    /\ simpleMessages = <<Turn("model", SimpleGreeting)>>
    /\ simpleInputValue = <<>>
    /\ isLoading = FALSE
    /\ simpleCalls = <<>>
    /\ updaterRuns \in {1, 2}

\* the same user events and the same provider events handed to both variants
NextPair ==
    \/ \E text \in InputValues :
            TypeInput(text) /\ SimpleTypeInput(text) /\ UNCHANGED viewVars
    \/ HandleSendMessage /\ SimpleHandleSendMessage /\ UNCHANGED viewVars
    \/ \E c \in DOMAIN calls :
            StreamOpened(c) /\ SimpleStreamOpened(c) /\ UNCHANGED viewVars
    \/ \E c \in DOMAIN calls : \E chunkText \in Fragments :
            StreamFragment(c, chunkText) /\ SimpleStreamFragment(c, chunkText)
                /\ UNCHANGED viewVars
    \/ \E c \in DOMAIN calls :
            StreamEnd(c) /\ SimpleStreamEnd(c) /\ UNCHANGED viewVars
    \/ \E c \in DOMAIN calls :
            StreamFail(c) /\ SimpleStreamFail(c) /\ UNCHANGED viewVars

\* the two variants side by side
SpecPair == InitPair /\ [][NextPair]_vars

\* the render of the last Turn of the transcript, a model Turn
\* (part_000:277-280)
RenderModelMessage ==
    /\ messages # <<>>
    /\ messages[Len(messages)].role = "model"
    /\ view' = ModelMessageContent(messages[Len(messages)].content)
    /\ view' # view
    /\ UNCHANGED <<hostVars, keyVars, chatVars, voiceVars, simpleVars>>

\* the component with voice mode on and the stream of its first turn still
\* open after it delivered the reply text, any of Texts (a state the
\* component reaches when the provider sends that text)
InitText ==
    /\ hostAistudio = "none"
    /\ hostSpeech = TRUE
    /\ keyStatus = "ready"
    /\ isInitializing = FALSE
    /\ keyError = "null"
    /\ chat = 1
    /\ currentModelMessage \in Texts
    /\ messages = <<Turn("model", ConfirmationMessage), Turn("user", <<"x">>),
                    Turn("model", currentModelMessage)>>
    /\ inputValue = <<>>
    /\ isStreaming = TRUE
    /\ isMadScientistVoiceOn = TRUE
    /\ checkPc = "done"
    /\ checkOutcome = "nofacility"
    /\ effDeps = <<"ready", 1, FALSE>>
    /\ dialogs = 0
    /\ selectClicks = 0
    /\ selectOks = 0
    /\ initRuns = 1
    /\ lastInit = "ok"
    /\ calls = <<[pc |-> "streaming", voice |-> TRUE,
                  delivered |-> <<currentModelMessage>>, narrated |-> FALSE,
                  lostNarration |-> FALSE]>>
    /\ sentLog = <<VoiceOnCommand \o <<"x">>>>
    /\ dropped = 0
    /\ speechQueue = <<>>
    /\ mutedByToggle = FALSE
    /\ speakLog = <<>>
    /\ view = NoView
    /\ SimpleInit

NextText ==
    \/ \E c \in DOMAIN calls : StreamEnd(c) /\ UNCHANGED <<viewVars, simpleVars>>
    \/ RenderModelMessage

\* the Reply Interpreter run on a completed reply: the finally block extracts
\* the narration, the render derives the display text and the sections
SpecText == InitText /\ [][NextText]_vars

(* ------------------------------- claims -------------------------------- *)
RECURSIVE Concat(_)
Concat(fs) == IF fs = <<>> THEN <<>> ELSE Head(fs) \o Concat(Tail(fs))

InFlight == {c \in DOMAIN calls : calls[c].pc \in {"opening", "streaming"}}

LastTurn(ms) == ms[Len(ms)]

\* C1: while a stream is open, the trailing Turn is a model Turn whose content
\* is the concatenation, in delivery order, of the fragments the stream has
\* delivered so far (the empty text before the first one).
PrefixConsistency ==
    \A c \in InFlight :
        /\ messages # <<>>
        /\ LastTurn(messages).role = "model"
        /\ LastTurn(messages).content = Concat(calls[c].delivered)

\* C1 witness: two different non-empty fragments have been applied
PrefixConsistencyWitness ==
    \E c \in InFlight :
        /\ Len(calls[c].delivered) >= 2
        /\ calls[c].delivered[1] # <<>>
        /\ calls[c].delivered[2] # <<>>
        /\ calls[c].delivered[1] # calls[c].delivered[2]
        /\ LastTurn(messages).content = calls[c].delivered[1] \o calls[c].delivered[2]

\* a step that is a submission: one the guard dropped or one it accepted
SubmissionStep == dropped' # dropped \/ Len(calls') > Len(calls)

\* C2: a submission made while the trimmed input is empty, or no Session
\* exists, or isStreaming is true changes neither the transcript, the input
\* field, isStreaming nor the accumulator, sends nothing to the Session and
\* starts no invocation that could send later.
GuardedSubmissionNoOp ==
    [][(SubmissionStep /\ (Trim(inputValue) = <<>> \/ chat = 0 \/ isStreaming))
         => UNCHANGED <<messages, inputValue, isStreaming, currentModelMessage,
                        sentLog, calls>>]_vars

\* C2 witness: a whitespace-only input was submitted to a live, idle Session
\* and nothing was sent
GuardedSubmissionWitness ==
    /\ dropped = 1
    /\ inputValue = <<" ">>
    /\ chat # 0
    /\ ~isStreaming
    /\ sentLog = <<>>
    /\ Len(messages) = 1

\* C3: when an invocation ends in failure, opening or reading, the trailing
\* Turn becomes a model Turn holding exactly the error message, every earlier
\* Turn is as it was and the one before it is the user Turn, isStreaming is
\* false, and nothing is sent again: no message and no invocation is added
\* and no stream is left open.
FailureReplacesReply ==
    [][\A c \in DOMAIN calls :
          (calls[c].pc # "failed" /\ calls'[c].pc = "failed") =>
              /\ Len(messages') = Len(messages)
              /\ LastTurn(messages') = Turn("model", ErrorMessage)
              /\ \A i \in 1..(Len(messages) - 1) : messages'[i] = messages[i]
              /\ messages'[Len(messages) - 1].role = "user"
              /\ ~isStreaming'
              /\ sentLog' = sentLog
              /\ Len(calls') = Len(calls)
              /\ \A d \in DOMAIN calls' : calls'[d].pc \in {"done", "failed"}]_vars

\* C3 witness: a stream has failed and the error message stands in its Turn
FailureReplacesReplyWitness ==
    /\ calls # <<>>
    /\ calls[1].pc = "failed"
    /\ LastTurn(messages) = Turn("model", ErrorMessage)
    /\ ~isStreaming

\* C4: at most one invocation of handleSendMessage has a stream opening or
\* open at any time.
AtMostOneStream == Cardinality(InFlight) <= 1

\* C4 witness: a second stream is open after the first one completed
AtMostOneStreamWitness ==
    /\ Len(calls) = 2
    /\ calls[1].pc = "done"
    /\ calls[2].pc = "streaming"
    /\ calls[2].delivered # <<>>

\* C5: a Session is stored only while Key State is 'ready'.
SessionOnlyWhenReady == chat # 0 => keyStatus = "ready"

\* C6: the step that completes the startup key check leaves Key State 'ready'
\* when the host has no hasSelectedApiKey to query or the query answers yes,
\* 'needed' when it answers no, and 'error' with the key-service message when
\* it throws; after a query that threw, Key State is never 'ready'.
KeyCheckOutcome ==
    /\ [][(checkPc # "done" /\ checkPc' = "done") =>
            /\ hostAistudio # "full" => keyStatus' = "ready"
            /\ (hostAistudio = "full" /\ checkOutcome' = "yes") => keyStatus' = "ready"
            /\ checkOutcome' = "no" => keyStatus' = "needed"
            /\ checkOutcome' = "throw" =>
                   (keyStatus' = "error" /\ keyError' = KeyServiceError)]_vars
    /\ [](checkOutcome = "throw" => keyStatus # "ready")

\* C6 witness: the query threw and the check ended in 'error'
KeyCheckOutcomeWitness ==
    /\ checkPc = "done"
    /\ checkOutcome = "throw"
    /\ keyStatus = "error"
    /\ keyError = KeyServiceError

\* C7: after a key check that answered no, once the first dialog has resolved
\* successfully: until the initializer has run, Key State is 'ready' and the
\* initialization effect is due with its condition true; from then on
\* initializeChat has run exactly once, and if it built the Session the
\* transcript is the single confirmation Turn until a submission is accepted.
SelectThenInitializeOnce ==
    (checkOutcome = "no" /\ selectOks = 1) =>
        IF initRuns = 0
        THEN keyStatus = "ready" /\ ~Quiescent /\ ShouldInitialize
        ELSE /\ initRuns = 1
             /\ (lastInit = "ok" /\ calls = <<>>) =>
                    (chat # 0 /\ messages = <<Turn("model", ConfirmationMessage)>>)

\* C7 witness: one successful selection, one initialization, the seeded Turn
SelectThenInitializeOnceWitness ==
    /\ checkOutcome = "no"
    /\ selectOks = 1
    /\ initRuns = 1
    /\ chat # 0
    /\ Quiescent
    /\ messages = <<Turn("model", ConfirmationMessage)>>

\* C8: a run of initializeChat that fails stores no Session and leaves the
\* initializing flag false; where window.aistudio exists it sets Key State
\* 'needed' and the invalid-key message for a known phrase, the
\* unexpected-error message otherwise, and leaves the transcript alone; where
\* it does not, the transcript becomes the single unavailability Turn and
\* Key State stays 'ready'.
InitFailureHandling ==
    [][(initRuns' = initRuns + 1 /\ lastInit' # "ok") =>
          /\ chat' = 0
          /\ ~isInitializing'
          /\ IF hostAistudio # "none"
             THEN /\ keyStatus' = "needed"
                  /\ keyError' =
                        IF lastInit' \in {"API key not valid", "permission", "not found"}
                        THEN InvalidKeyError
                        ELSE UnexpectedInitError
                  /\ messages' = messages
                  /\ \A i \in DOMAIN messages' : messages'[i].content # UnavailableMessage
             ELSE /\ messages' = <<Turn("model", UnavailableMessage)>>
                  /\ keyStatus = "ready"
                  /\ keyStatus' = "ready"]_vars

\* C8 witness: a construction failed with a known phrase where the key can be
\* selected again
InitFailureHandlingWitness ==
    /\ lastInit = "not found"
    /\ hostAistudio # "none"
    /\ keyStatus = "needed"
    /\ keyError = InvalidKeyError
    /\ chat = 0
    /\ messages = <<>>

\* the transcript index of the model Turn of the c-th accepted submission
ReplyIndex(c) == 2 * c + 1

\* the directive sent with the c-th submission says voice mode was on
VoiceOnAtSubmit(c) == SubSeq(sentLog[c], 1, Len(VoiceOnCommand)) = VoiceOnCommand

\* text holds the marker with something other than whitespace after it
HasNarration(text) ==
    \E i \in 1..(Len(text) - 1) :
        /\ text[i] = "V"
        /\ text[i + 1] = ":"
        /\ \E j \in (i + 2)..Len(text) : text[j] # " "

\* C9: speak is called for a turn only when its stream has ended; never for a
\* turn submitted with voice mode off; and for a turn submitted with voice
\* mode on whose stream completed, exactly when the reply holds the marker
\* followed by text that is not all whitespace.
NarratorDecidedAtSubmit ==
    \A c \in DOMAIN calls :
        /\ c \in InFlight => ~calls[c].narrated
        /\ ~VoiceOnAtSubmit(c) => ~calls[c].narrated
        /\ (VoiceOnAtSubmit(c) /\ calls[c].pc = "done") =>
               (calls[c].narrated <=> HasNarration(messages[ReplyIndex(c)].content))

\* C9 witness: a turn submitted with voice mode on completed with a narration
\* block after voice mode had been toggled off, and is being spoken
NarratorDecidedAtSubmitWitness ==
    /\ calls # <<>>
    /\ calls[1].pc = "done"
    /\ VoiceOnAtSubmit(1)
    /\ calls[1].narrated
    /\ ~isMadScientistVoiceOn
    /\ speechQueue # <<>>

\* C10: once voice mode has been toggled off during an utterance, the speech
\* engine holds no utterance for as long as voice mode stays off.
NoAudioWhileMuted == mutedByToggle => speechQueue = <<>>

\* the directive line handleSendMessage composes for a value of the flag
Directive(on) == IF on THEN VoiceOnCommand ELSE VoiceOffCommand

\* C11: a step that accepts a submission with input text t appends exactly
\* the user Turn with content t and an empty model Turn, clears the input
\* field and sends the directive line of the current Voice Mode flag followed
\* by t; and no user Turn of the transcript holds a directive line.
AcceptedSubmissionEffect ==
    /\ [][Len(calls') > Len(calls) =>
            /\ messages' = messages \o <<Turn("user", inputValue), Turn("model", <<>>)>>
            /\ inputValue' = <<>>
            /\ sentLog' = Append(sentLog, Directive(isMadScientistVoiceOn) \o inputValue)]_vars
    /\ [](\A i \in DOMAIN messages :
            messages[i].role = "user" =>
                \A k \in DOMAIN messages[i].content :
                    messages[i].content[k] \notin
                        {VoiceOnCommand[1], VoiceOffCommand[1]})

\* C11 witness: an untrimmed text was accepted with voice mode on; it stands
\* verbatim in the user Turn and the directive went to the Session only
AcceptedSubmissionWitness ==
    /\ Len(calls) = 1
    /\ Len(messages) = 3
    /\ messages[2] = Turn("user", <<"x", " ">>)
    /\ messages[3] = Turn("model", <<>>)
    /\ inputValue = <<>>
    /\ sentLog = <<VoiceOnCommand \o <<"x", " ">>>>

\* C12: no step shortens the transcript or changes a Turn that is not the
\* last one; a step changes the last Turn only if that Turn is a model Turn
\* and stays one, and a stream is opening or open when the step is taken.
TranscriptAppendOnly ==
    [][/\ Len(messages') >= Len(messages)
       /\ \A i \in DOMAIN messages :
             messages'[i] # messages[i] =>
                 /\ i = Len(messages)
                 /\ messages[i].role = "model"
                 /\ messages'[i].role = "model"
                 /\ InFlight # {}]_vars

\* C12 witness: the second turn failed after the first one completed, and the
\* Turns of the first are still in their places
TranscriptAppendOnlyWitness ==
    /\ Len(calls) = 2
    /\ calls[1].pc = "done"
    /\ calls[2].pc = "failed"
    /\ Len(messages) = 5
    /\ messages[1] = Turn("model", ConfirmationMessage)
    /\ messages[2].role = "user"
    /\ messages[3] = Turn("model", <<"x">>)
    /\ messages[5] = Turn("model", ErrorMessage)

\* text holds the narration marker
HoldsMarker(text) ==
    \E i \in 1..(Len(text) - 1) : text[i] = "V" /\ text[i + 1] = ":"

\* the narration handed to the Narrator: <<>> when none was
Narration == speechQueue

\* X, newline, VOICE_OVER:, blank, Y
Marked(X, Y) == X \o <<"\n">> \o VoiceMarker \o <<" ">> \o Y

\* the places where text splits as X, newline, VOICE_OVER:, blank, Y: the
\* indexes of that newline
MarkedAt(text) ==
    {p \in 1..(Len(text) - 3) :
        SubSeq(text, p, p + 3) = <<"\n">> \o VoiceMarker \o <<" ">>}

\* the parts X and Y of text split at p
PartX(text, p) == SubSeq(text, 1, p - 1)
PartY(text, p) == SubSeq(text, p + 4, Len(text))

\* C13 as stated: once the reply X, newline, VOICE_OVER: Y has completed the
\* narration is Y, and its display text is X; for a reply without the marker
\* there is no narration and the display text is the reply unchanged, also
\* when derived a second time.
NarrationRoundTrip ==
    /\ calls[1].pc = "done" =>
          /\ ~HoldsMarker(currentModelMessage) => Narration = <<>>
          /\ \A p \in MarkedAt(currentModelMessage) :
                Narration = <<PartY(currentModelMessage, p)>>
    /\ view.rendered =>
          /\ ~HoldsMarker(currentModelMessage) =>
                /\ view.displayContent = currentModelMessage
                /\ DisplayContent(view.displayContent) = view.displayContent
          /\ \A p \in MarkedAt(currentModelMessage) :
                view.displayContent = PartX(currentModelMessage, p)

\* C13 amended: once the reply X, newline, VOICE_OVER: Y, X holding no
\* marker, has completed, the narration is Y with its surrounding whitespace
\* trimmed, and there is none when that is empty; its display text is X
\* trimmed; for a reply without the marker there is no narration and the
\* display text is the reply trimmed; deriving the display text of a display
\* text gives it back.
NarrationTrimmedRoundTrip ==
    /\ calls[1].pc = "done" =>
          /\ ~HoldsMarker(currentModelMessage) => Narration = <<>>
          /\ \A p \in MarkedAt(currentModelMessage) :
                ~HoldsMarker(PartX(currentModelMessage, p)) =>
                    Narration =
                        IF Trim(PartY(currentModelMessage, p)) = <<>>
                        THEN <<>>
                        ELSE <<Trim(PartY(currentModelMessage, p))>>
    /\ view.rendered =>
          /\ ~HoldsMarker(currentModelMessage) =>
                view.displayContent = Trim(currentModelMessage)
          /\ \A p \in MarkedAt(currentModelMessage) :
                ~HoldsMarker(PartX(currentModelMessage, p)) =>
                    view.displayContent = Trim(PartX(currentModelMessage, p))
          /\ DisplayContent(view.displayContent) = view.displayContent

\* C13 witness: a reply whose parts carry whitespace of their own has
\* completed and been rendered
NarrationTrimmedWitness ==
    /\ currentModelMessage = Marked(<<" ", "x">>, <<"x", " ">>)
    /\ calls[1].pc = "done"
    /\ Narration = <<<<"x">>>>
    /\ view.rendered
    /\ view.displayContent = <<"x">>

\* a section with a delimited block starts at i: its label, then whitespace,
\* then the opening delimiter and, later, the closing one
BlockAt(d, i, label, open, close) ==
    /\ d[i] = label
    /\ \E j \in (i + 1)..Len(d) :
          /\ \A m \in (i + 1)..(j - 1) : d[m] \in {" ", "\n"}
          /\ d[j] = open
          /\ \E k \in (j + 1)..Len(d) : d[k] = close

\* where the sections found in d start
SectionStarts(d) ==
    {i \in 1..Len(d) :
        BlockAt(d, i, "L", "$", "$") \/ BlockAt(d, i, "M", "<", ">") \/ d[i] = "D"}

Least(S) == CHOOSE i \in S : \A j \in S : i <= j

\* C14 as stated: for a display text whose only section is a block between
\* two `$$`, the explanation is the text before the block, the LaTeX section
\* is the block, and there is no markup and no description.
SectionExtractionByDelimiter ==
    view.rendered =>
        \A j, k \in 1..Len(view.displayContent) :
            (/\ j < k
             /\ view.displayContent[j] = "$"
             /\ view.displayContent[k] = "$"
             /\ \A m \in 1..(k - 1) : m # j => view.displayContent[m] # "$"
             /\ \A m \in 1..Len(view.displayContent) :
                   view.displayContent[m] \notin {"M", "<", ">", "D"})
            => /\ view.explanationText = SubSeq(view.displayContent, 1, j - 1)
               /\ view.latex = <<SubSeq(view.displayContent, j, k)>>
               /\ view.mathml = <<>>
               /\ view.desc = <<>>

\* C14 amended: for a display text whose only section is the label
\* `LaTeX Formula:` followed, after any whitespace, by a block between two
\* `$$`, the explanation is the text before the label with its surrounding
\* whitespace trimmed, the LaTeX section is the block, and there is no markup
\* and no description; in general the explanation is the trimmed text before
\* the earliest section found, or the whole display text when none is, and
\* a section is absent exactly when its pattern is not found.
SectionExtraction ==
    view.rendered =>
        /\ \A i, j, k \in 1..Len(view.displayContent) :
              (/\ i < j /\ j < k
               /\ view.displayContent[i] = "L"
               /\ \A m \in (i + 1)..(j - 1) : view.displayContent[m] \in {" ", "\n"}
               /\ view.displayContent[j] = "$"
               /\ view.displayContent[k] = "$"
               /\ \A m \in (j + 1)..(k - 1) : view.displayContent[m] # "$"
               /\ \A m \in 1..(i - 1) : view.displayContent[m] # "L"
               /\ \A m \in 1..Len(view.displayContent) :
                     view.displayContent[m] \notin {"M", "D"})
              => /\ view.explanationText = Trim(SubSeq(view.displayContent, 1, i - 1))
                 /\ view.latex = <<SubSeq(view.displayContent, j, k)>>
                 /\ view.mathml = <<>>
                 /\ view.desc = <<>>
        /\ view.explanationText =
              IF SectionStarts(view.displayContent) = {}
              THEN view.displayContent
              ELSE Trim(SubSeq(view.displayContent, 1,
                               Least(SectionStarts(view.displayContent)) - 1))
        /\ view.latex = <<>> <=>
              ~\E i \in 1..Len(view.displayContent) :
                  BlockAt(view.displayContent, i, "L", "$", "$")
        /\ view.mathml = <<>> <=>
              ~\E i \in 1..Len(view.displayContent) :
                  BlockAt(view.displayContent, i, "M", "<", ">")
        /\ view.desc = <<>> <=>
              ~\E i \in 1..Len(view.displayContent) : view.displayContent[i] = "D"

\* C14 witness: a reply with an explanation, whitespace and a labelled LaTeX
\* block has been rendered
SectionExtractionWitness ==
    /\ currentModelMessage = <<"x", " ", "L", " ", "$", "x", "$">>
    /\ view.rendered
    /\ view.explanationText = <<"x">>
    /\ view.latex = <<<<"$", "x", "$">>>>
    /\ view.mathml = <<>>
    /\ view.desc = <<>>

\* C15: every accepted submission, while its stream is opening or open,
\* leads to a state in which its invocation has ended, by completion or by
\* failure, isStreaming is false and no stream is left open, so that the
\* guard admits a later submission.
SubmissionReturnsToIdle ==
    \A c \in 1..MaxSends :
        (Len(calls) >= c /\ calls[c].pc \in {"opening", "streaming"})
            ~> (/\ Len(calls) >= c
                /\ calls[c].pc \in {"done", "failed"}
                /\ ~isStreaming
                /\ InFlight = {})

\* C15 witness: after the first stream failed a second submission was
\* accepted and its stream completed
SubmissionReturnsToIdleWitness ==
    /\ Len(calls) = 2
    /\ calls[1].pc = "failed"
    /\ calls[2].pc = "done"
    /\ ~isStreaming

\* C16: initializeChat runs again after a failed run only where the host
\* lets the key be selected again, and only from Key State 'ready', which
\* the failed run had left for 'needed' and which, once a run has been made,
\* is entered only by the step that completes a key selection; without
\* window.aistudio a failed run leaves Key State 'ready', no Session and the
\* initializing flag false, and from then on the effect is not due, the
\* initializer has run once and the transcript is the single unavailability
\* Turn.
NoAutomaticRetry ==
    /\ [][(initRuns' > initRuns /\ initRuns > 0) =>
            (hostAistudio # "none" /\ lastInit # "ok" /\ keyStatus = "ready")]_vars
    /\ [][(initRuns' > initRuns /\ lastInit' # "ok" /\ hostAistudio # "none") =>
            keyStatus' = "needed"]_vars
    /\ [][(initRuns > 0 /\ keyStatus # "ready" /\ keyStatus' = "ready") =>
            selectOks' = selectOks + 1]_vars
    /\ []((hostAistudio = "none" /\ lastInit \notin {"none", "ok"}) =>
            /\ keyStatus = "ready"
            /\ chat = 0
            /\ ~isInitializing
            /\ Quiescent
            /\ initRuns = 1
            /\ messages = <<Turn("model", UnavailableMessage)>>)

\* C16 witness: without window.aistudio the construction failed, an event
\* has been handled since, and the effect's condition holds but it is not due
NoAutomaticRetryWitness ==
    /\ hostAistudio = "none"
    /\ lastInit = "network"
    /\ initRuns = 1
    /\ ShouldInitialize
    /\ Quiescent
    /\ dropped = 1
    /\ messages = <<Turn("model", UnavailableMessage)>>

\* C17: from a state with Key State 'error' no step changes Key State, moves
\* the key check, runs the initializer, stores a Session or accepts a
\* submission; and in such a state the check has thrown, no Session is
\* stored, the initializer has never run and nothing was ever submitted.
ErrorIsTerminal ==
    /\ [][keyStatus = "error" =>
            /\ keyStatus' = "error"
            /\ checkPc' = checkPc
            /\ initRuns' = initRuns
            /\ chat' = 0
            /\ calls' = calls
            /\ sentLog' = sentLog]_vars
    /\ [](keyStatus = "error" =>
            /\ checkPc = "done"
            /\ checkOutcome = "throw"
            /\ chat = 0
            /\ initRuns = 0
            /\ dialogs = 0
            /\ calls = <<>>
            /\ sentLog = <<>>)

\* C17 witness: the key check threw, the initialization effect has run on the
\* new Key State and the user has used the one control left, the voice toggle
ErrorIsTerminalWitness ==
    /\ keyStatus = "error"
    /\ Quiescent
    /\ isMadScientistVoiceOn
    /\ chat = 0
    /\ initRuns = 0

\* C18: a step in which the Narrator is called and an utterance starts is
\* taken with the Voice Mode flag on.
NarratorOnlyWhenVoiceOn ==
    [][(Len(speakLog') > Len(speakLog) /\ speechQueue' # <<>>) =>
          isMadScientistVoiceOn]_vars

\* the latest non-empty text of a log of speak calls, <<>> when there is none
RECURSIVE LatestSpoken(_)
LatestSpoken(log) ==
    IF log = <<>> THEN <<>>
    ELSE IF log[Len(log)] # <<>> THEN log[Len(log)]
    ELSE LatestSpoken(SubSeq(log, 1, Len(log) - 1))

\* C19: the speech engine holds at most one utterance, and the one it holds
\* is the text of the latest call of speak with non-empty text; a call of
\* speak with non-empty text, where there is an engine, leaves that text as
\* the only utterance, and a call with empty text leaves the engine as it was.
NarratorNeverQueues ==
    /\ [](Len(speechQueue) <= 1)
    /\ [](speechQueue # <<>> => speechQueue = <<LatestSpoken(speakLog)>>)
    /\ [][Len(speakLog') > Len(speakLog) =>
            IF hostSpeech /\ speakLog'[Len(speakLog')] # <<>>
            THEN speechQueue' = <<speakLog'[Len(speakLog')]>>
            ELSE speechQueue' = speechQueue]_vars

\* C19 witness: speak was called with a text, with another and then with the
\* empty text, and the second text is the one utterance
NarratorNeverQueuesWitness ==
    /\ speakLog = <<<<"x">>, <<"y">>, <<>>>>
    /\ speechQueue = <<<<"y">>>>

\* C20: with both Sessions live and voice mode off in the full variant, after
\* any sequence of submissions, fragments and failures the transcripts of the
\* two variants agree in every Turn after the seeded one, the input fields
\* agree, isLoading equals isStreaming and the same invocations are in the
\* same places, so that the same events are possible in both.
SimplerVariantAgrees ==
    /\ Len(simpleMessages) = Len(messages)
    /\ \A i \in 2..Len(messages) : simpleMessages[i] = messages[i]
    /\ simpleInputValue = inputValue
    /\ isLoading = isStreaming
    /\ Len(simpleCalls) = Len(calls)
    /\ \A c \in DOMAIN calls : simpleCalls[c] = calls[c].pc

\* while isStreaming is true the transcript ends with the model Turn of the one
\* invocation in flight, and the Turn before it is the user Turn holding the
\* text that invocation sent after its directive
StreamingHasPlaceholder ==
    isStreaming =>
        /\ Len(messages) >= 2
        /\ LastTurn(messages).role = "model"
        /\ \E c \in InFlight :
              /\ Len(messages) = ReplyIndex(c)
              /\ messages[Len(messages) - 1].role = "user"
              /\ Directive(calls[c].voice) \o messages[Len(messages) - 1].content
                     = sentLog[c]

\* a step that changes the transcript while isStreaming is true rewrites the
\* trailing model Turn and nothing else
UpdateTargetsPlaceholder ==
    (isStreaming /\ messages' # messages) =>
        /\ Len(messages') = Len(messages)
        /\ \A i \in 1..(Len(messages) - 1) : messages'[i] = messages[i]
        /\ LastTurn(messages).role = "model"
        /\ LastTurn(messages').role = "model"
        /\ Len(messages) > 1
        /\ LastTurn(messages) # Turn("model", ConfirmationMessage)

\* C21: in every state where isStreaming is true the transcript is non-empty,
\* its last Turn is a model Turn and the Turn before it is the user Turn of the
\* submission in flight; and every step that changes the transcript while
\* isStreaming is true (a fragment update, the error replacement) changes that
\* trailing Turn only, which is neither a user Turn nor the seeded
\* confirmation Turn.
StreamingTargetsPlaceholder ==
    []StreamingHasPlaceholder /\ [][UpdateTargetsPlaceholder]_vars

\* C21 witness: after a first turn that failed, a second stream is open and
\* has written its fragment into the trailing Turn, with the error message of
\* the first turn and the confirmation Turn standing where they were
StreamingTargetsPlaceholderWitness ==
    /\ isStreaming
    /\ Len(calls) = 2
    /\ calls[1].pc = "failed"
    /\ calls[2].pc = "streaming"
    /\ calls[2].delivered # <<>>
    /\ Len(messages) = 5
    /\ messages[1] = Turn("model", ConfirmationMessage)
    /\ messages[3] = Turn("model", ErrorMessage)
    /\ messages[4].role = "user"
    /\ LastTurn(messages) = Turn("model", Concat(calls[2].delivered))

\* C22: a step in which an invocation ends in failure calls speak with nothing
\* and leaves the speech engine as it was, whatever the voice flag was at
\* submission and whatever the fragments delivered before the failure held:
\* the accumulator holds the error message when the finally block reads it.
NoNarrationOnFailure ==
    [][\A c \in DOMAIN calls :
          (calls[c].pc # "failed" /\ calls'[c].pc = "failed") =>
              /\ currentModelMessage' = ErrorMessage
              /\ speakLog' = speakLog
              /\ speechQueue' = speechQueue
              /\ ~calls'[c].narrated]_vars

\* C22 witness: a turn submitted with voice mode on failed after its stream
\* had delivered a narration marker with text, with a speech engine present
\* and voice mode still on, and speak has not been called
NoNarrationOnFailureWitness ==
    /\ calls # <<>>
    /\ calls[1].pc = "failed"
    /\ VoiceOnAtSubmit(1)
    /\ calls[1].lostNarration
    /\ hostSpeech
    /\ isMadScientistVoiceOn
    /\ ~calls[1].narrated
    /\ speakLog = <<>>
    /\ LastTurn(messages) = Turn("model", ErrorMessage)
====
